---- MODULE Spec2Model ----
(***************************************************************************)
(* Model of the trebek-bot round engine (package game): the prefetch       *)
(* buffer and its refill goroutine, StartRound, CheckAnswer and            *)
(* normalizeAnswer, GetHint, AddNextVote, ClearCurrentQuestion and the     *)
(* PlayMode accessors; and of the bot around it (package main): the        *)
(* message handler, askQuestion and its timeout, handleAnswer, gameLoop.   *)
(*                                                                         *)
(* A string is a sequence of one-character strings.  A question is named   *)
(* by its position in the source (1..NQ); None (0) is the nil pointer.     *)
(***************************************************************************)
EXTENDS Integers, Sequences, FiniteSets, TLC

(* ------------------------------ bounds -------------------------------- *)
\* StartRound calls beyond the number of questions of the source
ExtraCalls == 1
\* GetHint calls counted for one active question beyond MaxHints
ExtraHintCalls == 1
\* longest submission typed in SpecAnswer
MaxLen == 4
\* !start commands the bot accepts (SpecBot)
MaxStarts == 2
\* questions the source has left when SpecBot begins
BotQuestions == 2
\* transient errors the source reports at most (SpecFlaky)
MaxErrors == 2
\* AddScore calls (SpecScore)
MaxAdds == 3

(* -------------------------- program constants ------------------------- *)
MaxHints == 3
BufferTarget == 3
RandTries == 5
DefaultNextVoteThreshold == 3
HintCost == 50
\* gameLoop: seconds to the next question after a round ended
NextQuestionDelay == 5
\* gameLoop: seconds to the next question after one was asked
NextQuestionInterval == 45

None == 0

Min(a, b) == IF a < b THEN a ELSE b

(* ------------------------------ alphabet ------------------------------ *)
Upper == {"A", "B"}
Lower == {"a", "b"}
Digit == {"4"}
Space == {" "}
Punct == {"-"}
Alphabet == Upper \cup Lower \cup Digit \cup Space \cup Punct

Users == {"u1", "u2", "u3"}

(* --------------------------- question source -------------------------- *)
\* the answers of the questions the source yields, in source order
Answers ==
  << <<"a", " ", "B", "4", "-">>,
     <<"4", "b">>,
     <<" ">>,
     <<" ", "b", " ">> >>

NQ == Len(Answers)
QuestionIds == 1..NQ
Answer(q) == Answers[q]

(* --------------------------- normalizeAnswer -------------------------- *)
\* a variant that leaves the case alone
KeepRune(c) == c

\* unicode.ToLower on one character
ToLowerRune(c) ==
  CASE c = "A" -> "a"
    [] c = "B" -> "b"
    [] OTHER -> c

ToLower(s) == [i \in 1..Len(s) |-> ToLowerRune(s[i])]

RECURSIVE TrimLeft(_)
TrimLeft(s) ==
  IF s # <<>> /\ Head(s) \in Space THEN TrimLeft(Tail(s)) ELSE s

RECURSIVE TrimRight(_)
TrimRight(s) ==
  IF s # <<>> /\ s[Len(s)] \in Space
  THEN TrimRight(SubSeq(s, 1, Len(s) - 1))
  ELSE s

TrimSpace(s) == TrimRight(TrimLeft(s))

\* the complement of the class [^a-zA-Z0-9]
IsAlphaNum(c) == c \in Upper \cup Lower \cup Digit

\* a variant that deletes only the first run of non-alphanumerics
RECURSIVE DropRun(_)
DropRun(s) ==
  IF s # <<>> /\ ~IsAlphaNum(Head(s)) THEN DropRun(Tail(s)) ELSE s

RECURSIVE ReplaceFirstNonAlphaNum(_)
ReplaceFirstNonAlphaNum(s) ==
  IF s = <<>> THEN <<>>
  ELSE IF IsAlphaNum(Head(s))
       THEN <<Head(s)>> \o ReplaceFirstNonAlphaNum(Tail(s))
       ELSE DropRun(s)

\* regNonAlphaNum.ReplaceAllString(s, "")
ReplaceAllNonAlphaNum(s) == SelectSeq(s, IsAlphaNum)

normalizeAnswer(s) == ReplaceAllNonAlphaNum(TrimSpace(ToLower(s)))

(* -------------------------------- state ------------------------------- *)
VARIABLES
  srcIndex,         \* questions the source has handed out so far
  errBudget,        \* transient errors the source will still report
  questionBuffer,   \* Game.questionBuffer
  bufferMu,         \* holder of Game.bufferMu: "free", "StartRound", "refill"
  mu,               \* holder of Game.mu: "free", "StartRound"
  srPc,             \* position of the StartRound call in progress
  refillPending,    \* refill goroutines launched, not yet holding bufferMu
  CurrentQuestion,  \* Game.CurrentQuestion
  hintCount,        \* Game.hintCount
  hintMask,         \* Game.hintMask
  nextVotes,        \* Game.nextVotes
  IsPlaying,        \* Game.IsPlaying
  fault,            \* a run-time panic has ended the process
  last,             \* the most recent completed call and what it returned
  served,           \* questions StartRound has returned
  nCalls,           \* completed StartRound calls
  hintCalls,        \* GetHint calls since the active question was installed
  hintGrants,       \* granted hints since the active question was installed
  sinceClear,       \* skip votes since the last ClearCurrentQuestion
  attempt,          \* the submission being typed (SpecAnswer)
  variant,          \* attempt was derived from the answer by case, space
                    \* and punctuation edits only (SpecAnswer)
  NextVoteThreshold,\* Game.NextVoteThreshold
  QuestionTimer,    \* the timer Game.QuestionTimer points to:
                    \* "nil", "armed", "stopped" or "fired"
  playArg,          \* the argument of the most recent SetPlaying call
  gameStopChan,     \* main's gameStopChan: "open" or "closed"
  hpc,              \* position of the message handler (Listen goroutine)
  loops,            \* the gameLoop goroutines, in launch order
  callbacks,        \* per-question timers the field no longer points to,
                    \* and the timeout callbacks that are running
  timers,           \* per question, what the timeout armed for its round
                    \* is doing
  Scores,           \* Scoreboard.Scores of Game.Scoreboard
  scoreboardFile,   \* the file scoreboard.json
  scoreHist         \* per player the deltas added since the last Reset,
                    \* and the number of AddScore calls

bufferVars == <<srcIndex, errBudget, questionBuffer, bufferMu, refillPending>>
roundVars == <<CurrentQuestion, hintCount, hintMask, nextVotes>>
histVars == <<served, nCalls, hintCalls, hintGrants, sinceClear, playArg>>
typeVars == <<attempt, variant>>
gameVars == <<NextVoteThreshold, QuestionTimer>>
botVars == <<gameStopChan, hpc, loops, callbacks, timers>>
scoreVars == <<Scores, scoreboardFile, scoreHist>>
vars == <<bufferVars, mu, srPc, roundVars, IsPlaying, fault, last, histVars,
          typeVars, gameVars, botVars, scoreVars>>

\* the record kept in last; unused fields keep these defaults
Ret(op) ==
  [op |-> op, q |-> None, ok |-> FALSE, msg |-> "", text |-> <<>>,
   n |-> 0, thr |-> 0, arg |-> <<>>]

(* ------------------------ QuestionSource.Next ------------------------- *)
\* the results one call of Next can have: a question, io.EOF, or an error
NextResults(idx, budget) ==
  (IF idx < NQ THEN {[kind |-> "question", q |-> idx + 1]}
               ELSE {[kind |-> "EOF", q |-> None]})
  \cup
  (IF idx < NQ /\ budget > 0 THEN {[kind |-> "error", q |-> None]}
                             ELSE {})

(* --------------------- fillQuestionBufferUnlocked --------------------- *)
\* the loop condition
FillWanted(buf) == Len(buf) < BufferTarget

\* a variant that goes on with the loop after a transient error
FillIterationRetry(st) ==
  { CASE r.kind = "question" ->
           [buf |-> Append(st.buf, r.q), idx |-> st.idx + 1,
            errs |-> st.errs, more |-> FillWanted(Append(st.buf, r.q))]
      [] r.kind = "EOF" ->
           [buf |-> st.buf, idx |-> st.idx, errs |-> st.errs, more |-> FALSE]
      [] OTHER ->
           [buf |-> st.buf, idx |-> st.idx, errs |-> st.errs - 1,
            more |-> TRUE]
    : r \in NextResults(st.idx, st.errs) }

\* one iteration of the loop: the state after it and whether the loop goes on
FillIteration(st) ==
  { CASE r.kind = "question" ->
           [buf |-> Append(st.buf, r.q), idx |-> st.idx + 1,
            errs |-> st.errs, more |-> FillWanted(Append(st.buf, r.q))]
      [] r.kind = "EOF" ->
           [buf |-> st.buf, idx |-> st.idx, errs |-> st.errs, more |-> FALSE]
      [] OTHER ->
           [buf |-> st.buf, idx |-> st.idx, errs |-> st.errs - 1,
            more |-> FALSE]
    : r \in NextResults(st.idx, st.errs) }

\* every state the whole loop can end in
RECURSIVE FillResults(_)
FillResults(st) ==
  IF ~st.more THEN {st}
  ELSE UNION { FillResults(t) : t \in FillIteration(st) }

(* ----------------------------- Scoreboard ---------------------------- *)
\* make(map[string]int)
EmptyScores == [p \in {} |-> 0]

\* sb.Scores[player]: a missing key reads as 0
MapGet(m, player) == IF player \in DOMAIN m THEN m[player] ELSE 0

\* a variant that stores the points instead of adding them
ScoresSet(m, player, points) ==
  [q \in DOMAIN m \cup {player} |-> IF q = player THEN points ELSE m[q]]

\* sb.Scores[player] += points
ScoresAdd(m, player, points) ==
  [q \in DOMAIN m \cup {player} |->
     IF q = player THEN MapGet(m, player) + points ELSE m[q]]

DigitChars == <<"0", "1", "2", "3", "4", "5", "6", "7", "8", "9">>

\* the decimal digits of a natural number
RECURSIVE FormatUint(_)
FormatUint(n) ==
  IF n < 10 THEN <<DigitChars[n + 1]>>
  ELSE FormatUint(n \div 10) \o <<DigitChars[(n % 10) + 1]>>

\* encoding/json writes an int in decimal, with a minus sign when negative
FormatInt(n) == IF n < 0 THEN <<"-">> \o FormatUint(-n) ELSE FormatUint(n)

DigitValue(c) == CHOOSE d \in 0..9 : DigitChars[d + 1] = c

RECURSIVE ParseUint(_)
ParseUint(s) ==
  IF Len(s) = 1 THEN DigitValue(s[1])
  ELSE 10 * ParseUint(SubSeq(s, 1, Len(s) - 1)) + DigitValue(s[Len(s)])

\* encoding/json reads a decimal number into an int
ParseInt(s) == IF Head(s) = "-" THEN -ParseUint(Tail(s)) ELSE ParseUint(s)

\* the player names in the order encoding/json writes map keys (sorted)
PlayerOrder == <<"u1", "u2", "u3">>

\* json.MarshalIndent(sb.Scores, "", "  "): the members of one object
MarshalScores(m) ==
  LET Present(player) == player \in DOMAIN m
      keys == SelectSeq(PlayerOrder, Present)
  IN [i \in 1..Len(keys) |->
        [key |-> keys[i], value |-> FormatInt(m[keys[i]])]]

\* json.Unmarshal(bytes, &sb.Scores): every member is stored in the map,
\* which keeps the keys it had
RECURSIVE UnmarshalScores(_, _)
UnmarshalScores(bytes, m) ==
  IF bytes = <<>> THEN m
  ELSE UnmarshalScores(
         Tail(bytes),
         [q \in DOMAIN m \cup {Head(bytes).key} |->
            IF q = Head(bytes).key THEN ParseInt(Head(bytes).value)
            ELSE m[q]])

\* sb.save(): os.WriteFile replaces the file (the write succeeds; a failed
\* write is logged and nothing else)
save(m) == [exists |-> TRUE, bytes |-> MarshalScores(m)]

\* sb.load() into the map m: without a file the map stays as it is
load(file, m) == IF file.exists THEN UnmarshalScores(file.bytes, m) ELSE m

\* NewScoreboard(): an empty map, then load
NewScoreboardScores(file) == load(file, EmptyScores)

\* the first start of the program: no scoreboard.json yet
NoScoreFile ==
  /\ scoreboardFile = [exists |-> FALSE, bytes |-> <<>>]
  /\ scoreHist = [sums |-> [p \in Users |-> 0], adds |-> 0]

\* the assignments of sb.AddScore(player, points), under sb.mu
AddScoreCall(player, points) ==
  /\ Scores' = ScoresAdd(Scores, player, points)
  /\ scoreboardFile' = save(ScoresAdd(Scores, player, points))
  /\ scoreHist' = [sums |-> [scoreHist.sums EXCEPT ![player] = @ + points],
                   adds |-> scoreHist.adds + 1]

\* the points the bot adds: 1 for a correct answer, -HintCost for a hint
Points == {1, -HintCost}

AddScore(player, points) ==
  /\ ~fault
  /\ scoreHist.adds < MaxAdds
  /\ AddScoreCall(player, points)
  /\ last' = [Ret("AddScore") EXCEPT !.msg = player, !.n = points]
  /\ UNCHANGED <<bufferVars, mu, srPc, roundVars, IsPlaying, fault, histVars,
                 typeVars, gameVars, botVars>>

GetScore(player) ==
  /\ ~fault
  /\ last' = [Ret("GetScore") EXCEPT !.msg = player,
                                     !.n = MapGet(Scores, player)]
  /\ UNCHANGED <<bufferVars, mu, srPc, roundVars, IsPlaying, fault, histVars,
                 typeVars, gameVars, botVars, scoreVars>>

\* sb.Reset()
Reset ==
  /\ ~fault
  /\ Scores' = EmptyScores
  /\ scoreboardFile' = save(EmptyScores)
  /\ scoreHist' = [scoreHist EXCEPT !.sums = [p \in Users |-> 0]]
  /\ last' = Ret("Reset")
  /\ UNCHANGED <<bufferVars, mu, srPc, roundVars, IsPlaying, fault, histVars,
                 typeVars, gameVars, botVars>>

\* a scoreboard constructed now, from the file as it is
NewScoreboard ==
  /\ ~fault
  /\ Scores' = NewScoreboardScores(scoreboardFile)
  /\ last' = Ret("NewScoreboard")
  /\ UNCHANGED <<bufferVars, mu, srPc, roundVars, IsPlaying, fault, histVars,
                 typeVars, gameVars, botVars, scoreboardFile, scoreHist>>

(* ------------------------------ NewGame ------------------------------- *)
NewGame(budget) ==
  /\ \E st \in FillResults([buf |-> <<>>, idx |-> 0, errs |-> budget,
                            more |-> FillWanted(<<>>)]) :
       /\ questionBuffer = st.buf
       /\ srcIndex = st.idx
       /\ errBudget = st.errs
  /\ bufferMu = "free"
  /\ mu = "free"
  /\ srPc = "idle"
  /\ refillPending = 0
  /\ CurrentQuestion = None
  /\ hintCount = 0
  /\ hintMask = <<>>
  /\ nextVotes = {}
  /\ IsPlaying = FALSE
  /\ NextVoteThreshold = DefaultNextVoteThreshold
  /\ QuestionTimer = "nil"
  /\ Scores = NewScoreboardScores(scoreboardFile)
  /\ fault = FALSE

\* main before the first chat message: the stop channel is open, the
\* handler is idle, no gameLoop and no timeout callback exists
BotStart ==
  /\ gameStopChan = "open"
  /\ hpc = [pc |-> "idle", q |-> None]
  /\ loops = <<>>
  /\ callbacks = [orphan |-> 0, check |-> 0, announce |-> 0, clear |-> 0,
                  playing |-> 0, send |-> 0]
  /\ timers = [q \in QuestionIds |-> "off"]

Init ==
  /\ NoScoreFile
  /\ NewGame(0)
  /\ BotStart
  /\ last = Ret("NewGame")
  /\ served = {}
  /\ nCalls = 0
  /\ hintCalls = 0
  /\ hintGrants = 0
  /\ sinceClear = "other"
  /\ playArg = FALSE
  /\ attempt = <<>>
  /\ variant = FALSE

(* ----------------------------- StartRound ----------------------------- *)
\* g.mu.Lock()
StartRoundLock ==
  /\ ~fault
  /\ mu = "free"
  /\ srPc = "idle"
  /\ nCalls < NQ + ExtraCalls
  /\ mu' = "StartRound"
  /\ srPc' = "lockBuffer"
  /\ UNCHANGED <<bufferVars, roundVars, IsPlaying, fault, last, histVars,
                 typeVars, gameVars, botVars, scoreVars>>

\* a variant that never refills synchronously
SyncFillNever(buf) == FALSE

\* whether StartRound refills before it looks for a question
SyncFillWanted(buf) == Len(buf) = 0

\* g.bufferMu.Lock(), then the test for an empty buffer
StartRoundLockBuffer ==
  /\ srPc = "lockBuffer"
  /\ bufferMu = "free"
  /\ bufferMu' = "StartRound"
  /\ srPc' = IF SyncFillWanted(questionBuffer) THEN "fill" ELSE "take"
  /\ UNCHANGED <<srcIndex, errBudget, questionBuffer, refillPending, mu,
                 roundVars, IsPlaying, fault, last, histVars, typeVars,
                 gameVars, botVars, scoreVars>>

\* one iteration of the synchronous fillQuestionBufferUnlocked
StartRoundFill ==
  /\ srPc = "fill"
  /\ \E t \in FillIteration([buf |-> questionBuffer, idx |-> srcIndex,
                             errs |-> errBudget, more |-> TRUE]) :
       /\ questionBuffer' = t.buf
       /\ srcIndex' = t.idx
       /\ errBudget' = t.errs
       /\ srPc' = IF t.more THEN "fill" ELSE "take"
  /\ UNCHANGED <<bufferMu, refillPending, mu, roundVars, IsPlaying, fault,
                 last, histVars, typeVars, gameVars, botVars, scoreVars>>

\* buffer still empty: unlock and return nil
StartRoundNone ==
  /\ srPc = "take"
  /\ Len(questionBuffer) = 0
  /\ bufferMu' = "free"
  /\ mu' = "free"
  /\ srPc' = "idle"
  /\ last' = Ret("StartRound")
  /\ nCalls' = nCalls + 1
  /\ UNCHANGED <<srcIndex, errBudget, questionBuffer, refillPending, roundVars,
                 IsPlaying, fault, served, hintCalls, hintGrants, sinceClear,
                 playArg, typeVars, gameVars, botVars, scoreVars>>

\* a variant that leaves the taken question in the buffer
RemoveKeep(buf, i) == buf

\* the buffer after the element at i is removed

RemoveAt(buf, i) == SubSeq(buf, 1, i - 1) \o SubSeq(buf, i + 1, Len(buf))

\* pick a random element, remove it, unlock the buffer, install the
\* question, launch the refill goroutine, return the question
StartRoundTake ==
  /\ srPc = "take"
  /\ Len(questionBuffer) > 0
  /\ \E idx \in 1..Len(questionBuffer) :
       /\ CurrentQuestion' = questionBuffer[idx]
       /\ questionBuffer' = RemoveAt(questionBuffer, idx)
       /\ last' = [Ret("StartRound") EXCEPT !.q = questionBuffer[idx]]
       /\ served' = served \cup {questionBuffer[idx]}
  /\ bufferMu' = "free"
  /\ refillPending' = refillPending + 1
  /\ mu' = "free"
  /\ srPc' = "idle"
  /\ nCalls' = nCalls + 1
  /\ hintCalls' = 0
  /\ hintGrants' = 0
  /\ UNCHANGED <<srcIndex, errBudget, hintCount, hintMask, nextVotes, IsPlaying,
                 fault, sinceClear, playArg, typeVars, gameVars, botVars,
                 scoreVars>>

(* ------------------ go g.fillQuestionBuffer() ------------------------- *)
\* a variant that goes on without waiting for the buffer lock
RefillLockBarging ==
  /\ ~fault
  /\ refillPending > 0
  /\ bufferMu' = "refill"
  /\ refillPending' = refillPending - 1
  /\ UNCHANGED <<srcIndex, errBudget, questionBuffer, mu, srPc, roundVars,
                 IsPlaying, fault, last, histVars, typeVars, gameVars, botVars,
                 scoreVars>>

\* g.bufferMu.Lock() in the goroutine
RefillLock ==
  /\ ~fault
  /\ refillPending > 0
  /\ bufferMu = "free"
  /\ bufferMu' = "refill"
  /\ refillPending' = refillPending - 1
  /\ UNCHANGED <<srcIndex, errBudget, questionBuffer, mu, srPc, roundVars,
                 IsPlaying, fault, last, histVars, typeVars, gameVars, botVars,
                 scoreVars>>

\* a variant without the deferred Unlock: the goroutine returns holding
\* the buffer lock
RefillFillNoUnlock ==
  /\ ~fault
  /\ bufferMu = "refill"
  /\ FillWanted(questionBuffer)
  /\ \E t \in FillIteration([buf |-> questionBuffer, idx |-> srcIndex,
                              errs |-> errBudget, more |-> TRUE]) :
       /\ questionBuffer' = t.buf
       /\ srcIndex' = t.idx
       /\ errBudget' = t.errs
  /\ UNCHANGED <<bufferMu, refillPending, mu, srPc, roundVars, IsPlaying,
                 fault, last, histVars, typeVars, gameVars, botVars,
                 scoreVars>>

\* the goroutine's next step: one iteration of fillQuestionBufferUnlocked,
\* or, with the buffer at its target, the return and the deferred Unlock
RefillFill ==
  /\ ~fault
  /\ bufferMu = "refill"
  /\ IF FillWanted(questionBuffer)
     THEN \E t \in FillIteration([buf |-> questionBuffer, idx |-> srcIndex,
                                  errs |-> errBudget, more |-> TRUE]) :
            /\ questionBuffer' = t.buf
            /\ srcIndex' = t.idx
            /\ errBudget' = t.errs
            /\ bufferMu' = IF t.more THEN "refill" ELSE "free"
     ELSE /\ bufferMu' = "free"
          /\ UNCHANGED <<srcIndex, errBudget, questionBuffer>>
  /\ UNCHANGED <<refillPending, mu, srPc, roundVars, IsPlaying, fault, last,
                 histVars, typeVars, gameVars, botVars, scoreVars>>

(* ----------------------------- CheckAnswer ---------------------------- *)
\* a variant that compares with the answer as stored
CheckAnswerResultRaw(q, answer) ==
  IF q = None THEN FALSE
  ELSE normalizeAnswer(answer) = Answer(q)

\* the value CheckAnswer returns
CheckAnswerResult(q, answer) ==
  IF q = None THEN FALSE
  ELSE normalizeAnswer(answer) = normalizeAnswer(Answer(q))

CheckAnswer(answer) ==
  /\ ~fault
  /\ mu = "free"
  /\ last' = [Ret("CheckAnswer") EXCEPT
                !.ok = CheckAnswerResult(CurrentQuestion, answer)]
  /\ UNCHANGED <<bufferVars, mu, srPc, roundVars, IsPlaying, fault, histVars,
                 typeVars, gameVars, botVars, scoreVars>>

(* -------------------------- GetCurrentQuestion ------------------------ *)
GetCurrentQuestion ==
  /\ ~fault
  /\ mu = "free"
  /\ last' = [Ret("GetCurrentQuestion") EXCEPT !.q = CurrentQuestion]
  /\ UNCHANGED <<bufferVars, mu, srPc, roundVars, IsPlaying, fault, histVars,
                 typeVars, gameVars, botVars, scoreVars>>

(* ------------------------ ClearCurrentQuestion ------------------------ *)
\* a variant that keeps the votes
VotesKept(votes) == votes

\* the vote set a clear leaves behind

VotesCleared(votes) == {}

\* a variant that keeps the hint counter
HintsKept(count) == count

\* the hint counter a clear leaves behind
HintsCleared(count) == 0

\* g.QuestionTimer.Stop() when the field is not nil: a pending timer is
\* stopped, on any other timer Stop does nothing
StopTimer(t) == IF t = "armed" THEN "stopped" ELSE t

\* a variant that leaves the question active
ClearRoundKeep ==
  /\ CurrentQuestion' = CurrentQuestion
  /\ hintCount' = HintsCleared(hintCount)
  /\ hintMask' = <<>>
  /\ nextVotes' = VotesCleared(nextVotes)
  /\ QuestionTimer' = StopTimer(QuestionTimer)
  /\ sinceClear' = "cleared"
  /\ hintCalls' = 0
  /\ hintGrants' = 0

\* the assignments of ClearCurrentQuestion, all under g.mu
ClearRound ==
  /\ CurrentQuestion' = None
  /\ hintCount' = HintsCleared(hintCount)
  /\ hintMask' = <<>>
  /\ nextVotes' = VotesCleared(nextVotes)
  /\ QuestionTimer' = StopTimer(QuestionTimer)
  /\ sinceClear' = "cleared"
  /\ hintCalls' = 0
  /\ hintGrants' = 0

ClearCurrentQuestion ==
  /\ ~fault
  /\ mu = "free"
  /\ ClearRound
  /\ last' = Ret("ClearCurrentQuestion")
  /\ UNCHANGED <<bufferVars, mu, srPc, IsPlaying, fault, served, nCalls,
                 playArg, typeVars, NextVoteThreshold, botVars, scoreVars>>

(* ----------------------- SetPlaying / GetPlaying ---------------------- *)
\* a variant that can only switch PlayMode on
PlayingSticky(old, playing) == old \/ playing

\* the value SetPlaying stores
PlayingAfterSet(old, playing) == playing

SetPlaying(playing) ==
  /\ ~fault
  /\ mu = "free"
  /\ IsPlaying' = PlayingAfterSet(IsPlaying, playing)
  /\ playArg' = playing
  /\ last' = [Ret("SetPlaying") EXCEPT !.ok = playing]
  /\ UNCHANGED <<bufferVars, mu, srPc, roundVars, fault, served, nCalls,
                 hintCalls, hintGrants, sinceClear, typeVars,
                 gameVars, botVars, scoreVars>>

GetPlaying ==
  /\ ~fault
  /\ mu = "free"
  /\ last' = [Ret("GetPlaying") EXCEPT !.ok = IsPlaying]
  /\ UNCHANGED <<bufferVars, mu, srPc, roundVars, IsPlaying, fault, histVars,
                 typeVars, gameVars, botVars, scoreVars>>

(* ------------------------------- GetHint ------------------------------ *)
\* a variant that masks the spaces too
BuildMaskAll(answer) == [i \in 1..Len(answer) |-> "_"]

\* the mask built on the first hint: spaces shown, the rest masked
BuildMask(answer) ==
  [i \in 1..Len(answer) |-> IF answer[i] = " " THEN " " ELSE "_"]

HintPanic(mask) == [mask |-> mask, revealed |-> FALSE, panic |-> TRUE]
HintMiss(mask) == [mask |-> mask, revealed |-> FALSE, panic |-> FALSE]
\* a variant that reveals every masked position at once
HintRevealAll(mask, answer, i) ==
  [mask |-> [j \in 1..Len(mask) |->
               IF mask[j] = "_" /\ j <= Len(answer) THEN answer[j]
               ELSE mask[j]],
   revealed |-> TRUE, panic |-> FALSE]

\* mask[i] = answer[i]; revealed = true
HintReveal(mask, answer, i) ==
  [mask |-> [mask EXCEPT ![i] = answer[i]], revealed |-> TRUE,
   panic |-> FALSE]

\* the outcomes of up to k random tries; rand.Intn panics on an empty
\* answer, and an index beyond the mask is out of range
RECURSIVE RandomTries(_, _, _)
RandomTries(mask, answer, k) ==
  IF k = 0 THEN {HintMiss(mask)}
  ELSE IF Len(answer) = 0 THEN {HintPanic(mask)}
  ELSE UNION { IF idx > Len(mask) THEN {HintPanic(mask)}
               ELSE IF mask[idx] = "_" THEN {HintReveal(mask, answer, idx)}
               ELSE RandomTries(mask, answer, k - 1)
             : idx \in 1..Len(answer) }

\* the first underscore of the mask, 0 when there is none
FirstMasked(mask) ==
  IF \E i \in 1..Len(mask) : mask[i] = "_"
  THEN CHOOSE i \in 1..Len(mask) :
         mask[i] = "_" /\ \A j \in 1..(i - 1) : mask[j] # "_"
  ELSE 0

\* a variant without the fallback
FallbackNone(o, answer) == o

\* the fallback: reveal the first underscore of the mask
Fallback(o, answer) ==
  IF o.panic \/ o.revealed THEN o
  ELSE IF FirstMasked(o.mask) = 0 THEN o
  ELSE IF FirstMasked(o.mask) > Len(answer) THEN HintPanic(o.mask)
  ELSE HintReveal(o.mask, answer, FirstMasked(o.mask))

\* every outcome of the reveal part of GetHint
RevealOutcomes(mask, answer) ==
  { Fallback(o, answer) : o \in RandomTries(mask, answer, RandTries) }

\* a variant that allows one hint more
HintsExhaustedOff(count) == count > MaxHints

\* the guard on the number of hints

HintsExhausted(count) == count >= MaxHints

GetHint ==
  /\ ~fault
  /\ mu = "free"
  /\ hintCalls < MaxHints + ExtraHintCalls
  /\ IF CurrentQuestion = None
     THEN /\ last' = [Ret("GetHint") EXCEPT !.msg = "No question is currently active."]
          /\ UNCHANGED <<hintCount, hintMask, fault, hintCalls, hintGrants>>
     ELSE IF HintsExhausted(hintCount)
     THEN /\ last' = [Ret("GetHint") EXCEPT
                        !.msg = "Maximum hints reached for this question."]
          /\ hintCalls' = hintCalls + 1
          /\ UNCHANGED <<hintCount, hintMask, fault, hintGrants>>
     ELSE LET answer == TrimSpace(Answer(CurrentQuestion))
              mask == IF Len(hintMask) = 0 THEN BuildMask(answer)
                                           ELSE hintMask
          IN \E o \in RevealOutcomes(mask, answer) :
               /\ hintMask' = o.mask
               /\ fault' = o.panic
               /\ hintCalls' = hintCalls + 1
               /\ IF o.panic
                  THEN /\ last' = [Ret("GetHint") EXCEPT
                                     !.msg = "panic"]
                       /\ UNCHANGED <<hintCount, hintGrants>>
                  ELSE IF o.revealed
                  THEN /\ hintCount' = hintCount + 1
                       /\ hintGrants' = hintGrants + 1
                       /\ last' = [Ret("GetHint") EXCEPT
                                     !.ok = TRUE]
                  ELSE /\ last' = [Ret("GetHint") EXCEPT
                                     !.msg = "No more characters to reveal for a hint."]
                       /\ UNCHANGED <<hintCount, hintGrants>>
  /\ UNCHANGED <<bufferVars, mu, srPc, CurrentQuestion, nextVotes, IsPlaying,
                 served, nCalls, sinceClear, playArg, typeVars,
                 gameVars, botVars, scoreVars>>

(* ----------------------------- AddNextVote ---------------------------- *)
\* a variant without the test
NoQuestionNever(q) == FALSE

\* the test for an absent question

NoQuestion(q) == q = None

\* a variant that never recognises a repeated vote
AlreadyVotedNever(votes, user) == FALSE

\* the test for a repeated vote
AlreadyVoted(votes, user) == user \in votes

\* a variant that needs one vote more
QuorumExceeded(n, threshold) == n > threshold

\* the test for the quorum
QuorumReached(n, threshold) == n >= threshold

\* a variant that ends the round when the quorum is reached
QuestionAfterSkip(q, skipped) == IF skipped THEN None ELSE q

\* the active question after a vote: AddNextVote does not assign it
QuestionAfterVote(q, skipped) == q

AddNextVote(user) ==
  /\ ~fault
  /\ mu = "free"
  /\ IF NoQuestion(CurrentQuestion)
     THEN /\ last' = Ret("AddNextVote")
          /\ UNCHANGED <<CurrentQuestion, nextVotes, sinceClear>>
     ELSE IF AlreadyVoted(nextVotes, user)
     THEN /\ last' = [Ret("AddNextVote") EXCEPT
                        !.n = Cardinality(nextVotes),
                        !.thr = NextVoteThreshold]
          /\ sinceClear' = IF sinceClear = "cleared" THEN "first"
                                                      ELSE "other"
          /\ UNCHANGED <<CurrentQuestion, nextVotes>>
     ELSE LET currentVotes == Cardinality(nextVotes \cup {user})
              skipped == QuorumReached(currentVotes, NextVoteThreshold)
          IN /\ nextVotes' = nextVotes \cup {user}
             /\ last' = [Ret("AddNextVote") EXCEPT
                           !.n = currentVotes,
                           !.thr = NextVoteThreshold,
                           !.ok = skipped]
             /\ CurrentQuestion' = QuestionAfterVote(CurrentQuestion, skipped)
             /\ sinceClear' = IF sinceClear = "cleared" THEN "first"
                                                         ELSE "other"
  /\ UNCHANGED <<bufferVars, mu, srPc, hintCount, hintMask, IsPlaying, fault,
                 served, nCalls, hintCalls, hintGrants, playArg, typeVars,
                 gameVars, botVars, scoreVars>>

\* game.NextVoteThreshold = t: the field is exported and assigned from
\* outside the package
Thresholds == {2, 3}

SetNextVoteThreshold(t) ==
  /\ ~fault
  /\ srPc = "idle"
  /\ nextVotes = {}
  /\ NextVoteThreshold # t
  /\ NextVoteThreshold' = t
  /\ last' = Ret("SetNextVoteThreshold")
  /\ UNCHANGED <<bufferVars, mu, srPc, roundVars, IsPlaying, fault, histVars,
                 typeVars, QuestionTimer, botVars, scoreVars>>

(* ------------------------------ the engine ---------------------------- *)
\* submissions sent to CheckAnswer in Spec
Submissions == { <<" ", "4", "B", "-">>, <<"b", "4">> }

StartRound ==
  \/ StartRoundLock
  \/ StartRoundLockBuffer
  \/ StartRoundFill
  \/ StartRoundNone
  \/ StartRoundTake

fillQuestionBuffer ==
  \/ RefillLock
  \/ RefillFill

\* no StartRound call in progress and no refill goroutine alive
AtRest == srPc = "idle" /\ bufferMu = "free" /\ refillPending = 0

\* SpecBuffer: the buffer, the source and the two locks under every
\* interleaving of StartRound calls, refill goroutines and clears
NextBuffer ==
  \/ StartRound
  \/ fillQuestionBuffer
  \/ GetCurrentQuestion
  \/ ClearCurrentQuestion

SpecBuffer == Init /\ [][NextBuffer]_vars

\* SpecHint: SpecBuffer with GetHint
NextHint ==
  \/ NextBuffer
  \/ GetHint

SpecHint == Init /\ [][NextHint]_vars

\* SpecVote: SpecBuffer with AddNextVote
NextVote ==
  \/ NextBuffer
  \/ \E u \in Users : AddNextVote(u)
  \/ \E t \in Thresholds : SetNextVoteThreshold(t)

SpecVote == Init /\ [][NextVote]_vars

\* Spec: every operation of the engine.  The operations that touch neither
\* the buffer nor the source are called while the buffer is at rest; the
\* refill goroutine shares no variable with them.
Next ==
  \/ StartRound
  \/ fillQuestionBuffer
  \/ AtRest /\ GetCurrentQuestion
  \/ AtRest /\ ClearCurrentQuestion
  \/ AtRest /\ \E s \in Submissions : CheckAnswer(s)
  \/ AtRest /\ \E b \in BOOLEAN : SetPlaying(b)
  \/ AtRest /\ GetPlaying
  \/ AtRest /\ GetHint
  \/ AtRest /\ \E u \in Users : AddNextVote(u)

Spec == Init /\ [][Next]_vars

(* --------------------- submissions (SpecAnswer) ----------------------- *)
\* the engine after questions 1..q were asked one at a time, each taken
\* from the head of the buffer, with question q still active
RoundActive(q) ==
  /\ srcIndex = NQ
  /\ errBudget = 0
  /\ questionBuffer = [i \in 1..(NQ - q) |-> q + i]
  /\ bufferMu = "free"
  /\ mu = "free"
  /\ srPc = "idle"
  /\ refillPending = 0
  /\ CurrentQuestion = q
  /\ hintCount = 0
  /\ hintMask = <<>>
  /\ nextVotes = {}
  /\ IsPlaying = FALSE
  /\ NextVoteThreshold = DefaultNextVoteThreshold
  /\ QuestionTimer = "nil"
  /\ fault = FALSE
  /\ served = 1..q
  /\ nCalls = q
  /\ hintCalls = 0
  /\ hintGrants = 0
  /\ playArg = FALSE
  /\ BotStart
  /\ NoScoreFile
  /\ Scores = NewScoreboardScores(scoreboardFile)

\* a chat user starts from the answer itself
InitAnswer ==
  \E q \in QuestionIds :
    /\ RoundActive(q)
    /\ sinceClear = IF q = 1 THEN "other" ELSE "cleared"
    /\ last = [Ret("StartRound") EXCEPT !.q = q]
    /\ attempt = Answer(q)
    /\ variant = TRUE

SwapCase(c) ==
  CASE c = "A" -> "a"
    [] c = "a" -> "A"
    [] c = "B" -> "b"
    [] c = "b" -> "B"
    [] OTHER -> c

\* the user changes the case of one letter
ToggleCase(i) ==
  /\ attempt[i] \in Upper \cup Lower
  /\ attempt' = [attempt EXCEPT ![i] = SwapCase(attempt[i])]
  /\ variant' = variant
  /\ last' = Ret("type")
  /\ UNCHANGED <<bufferVars, mu, srPc, roundVars, IsPlaying, fault, histVars,
                 gameVars, botVars, scoreVars>>

\* the user inserts a character; whitespace and punctuation keep a variant
InsertRune(i, c) ==
  /\ Len(attempt) < MaxLen
  /\ attempt' = SubSeq(attempt, 1, i - 1) \o <<c>> \o
                SubSeq(attempt, i, Len(attempt))
  /\ variant' = (variant /\ c \in Space \cup Punct)
  /\ last' = Ret("type")
  /\ UNCHANGED <<bufferVars, mu, srPc, roundVars, IsPlaying, fault, histVars,
                 gameVars, botVars, scoreVars>>

\* the user deletes a character
DeleteRune(i) ==
  /\ attempt' = SubSeq(attempt, 1, i - 1) \o
                SubSeq(attempt, i + 1, Len(attempt))
  /\ variant' = (variant /\ attempt[i] \in Space \cup Punct)
  /\ last' = Ret("type")
  /\ UNCHANGED <<bufferVars, mu, srPc, roundVars, IsPlaying, fault, histVars,
                 gameVars, botVars, scoreVars>>

\* normalizeAnswer applied to the submission
Normalize ==
  /\ last' = [Ret("normalizeAnswer") EXCEPT
                !.arg = attempt, !.text = normalizeAnswer(attempt)]
  /\ UNCHANGED <<bufferVars, mu, srPc, roundVars, IsPlaying, fault, histVars,
                 typeVars, gameVars, botVars, scoreVars>>

\* normalizeAnswer applied to its own result
NormalizeAgain ==
  /\ last.op = "normalizeAnswer"
  /\ last' = [Ret("normalizeAnswer twice") EXCEPT
                !.arg = last.text, !.text = normalizeAnswer(last.text)]
  /\ UNCHANGED <<bufferVars, mu, srPc, roundVars, IsPlaying, fault, histVars,
                 typeVars, gameVars, botVars, scoreVars>>

NextAnswer ==
  \/ \E i \in 1..Len(attempt) : ToggleCase(i)
  \/ \E i \in 1..(Len(attempt) + 1) : \E c \in Alphabet : InsertRune(i, c)
  \/ \E i \in 1..Len(attempt) : DeleteRune(i)
  \/ CheckAnswer(attempt)
  \/ Normalize
  \/ NormalizeAgain

SpecAnswer == InitAnswer /\ [][NextAnswer]_vars

(* ----------------------------- SpecScore ------------------------------ *)
\* SpecScore: the calls on the scoreboard, and a scoreboard constructed
\* anew from the file
NextScore ==
  \/ \E player \in Users : \E points \in Points : AddScore(player, points)
  \/ \E player \in Users : GetScore(player)
  \/ Reset
  \/ NewScoreboard

SpecScore == Init /\ [][NextScore]_vars

(* ------------------- a source that fails (SpecFlaky) ------------------ *)
\* NewGame on a source that can report up to MaxErrors transient errors
InitFlaky ==
  /\ NoScoreFile
  /\ NewGame(MaxErrors)
  /\ BotStart
  /\ last = Ret("NewGame")
  /\ served = {}
  /\ nCalls = 0
  /\ hintCalls = 0
  /\ hintGrants = 0
  /\ sinceClear = "other"
  /\ playArg = FALSE
  /\ attempt = <<>>
  /\ variant = FALSE

\* askQuestion after its StartRound call returned nil:
\* triviaGame.SetPlaying(false) and return
askQuestionNone ==
  /\ last.op = "StartRound"
  /\ last.q = None
  /\ srPc = "idle"
  /\ SetPlaying(FALSE)

\* SpecFlaky: SpecBuffer on the failing source, with continuous play
\* switched on and askQuestion's reaction to a nil StartRound
NextFlaky ==
  \/ NextBuffer
  \/ ~IsPlaying /\ SetPlaying(TRUE)
  \/ askQuestionNone

SpecFlaky == InitFlaky /\ [][NextFlaky]_vars

(* ============================ the bot (main) =========================== *)
\* The Listen goroutine runs one message handler at a time; hpc is its
\* position.  Every step below is one engine call, channel operation or
\* timer operation of main.go.  The engine calls are atomic here: each runs
\* under g.mu from start to end.

\* hpc.q is the question the handler is dealing with: the one StartRound
\* returned to it, the one whose answer the user submits, or the one whose
\* round it has decided to end; None in every other position
AtHandler(pc) == [pc |-> pc, q |-> None]

\* a gameLoop goroutine: its position, its nextQuestionTimer (timer is the
\* delay it is armed for, 0 when it is not armed; tick is a value waiting in
\* the timer's channel), the round-ended value it has received, once it
\* has taken the stopChan case what its timer was at that moment, and the
\* question its askQuestion got from StartRound
NewLoop ==
  [pc |-> "select", timer |-> 0, tick |-> FALSE, answered |-> FALSE,
   stoppedAt |-> "no", q |-> None]

LoopIds == DOMAIN loops

(* ----------------------- StartRound as one step ----------------------- *)
\* the buffer and source after the synchronous refill of StartRound
StartRoundFilled ==
  IF SyncFillWanted(questionBuffer)
  THEN FillResults([buf |-> questionBuffer, idx |-> srcIndex,
                    errs |-> errBudget, more |-> TRUE])
  ELSE {[buf |-> questionBuffer, idx |-> srcIndex, errs |-> errBudget,
         more |-> FALSE]}

\* every result of one StartRound call: the question returned (None for
\* nil) and the buffer and source it leaves
StartRoundResults ==
  UNION { IF Len(st.buf) = 0
          THEN {[q |-> None, buf |-> st.buf, idx |-> st.idx,
                 errs |-> st.errs]}
          ELSE {[q |-> st.buf[i], buf |-> RemoveAt(st.buf, i),
                 idx |-> st.idx, errs |-> st.errs] : i \in 1..Len(st.buf)}
        : st \in StartRoundFilled }

\* q := triviaGame.StartRound() in askQuestion, with result o
CallStartRound(o) ==
  /\ mu = "free"
  /\ srPc = "idle"
  /\ bufferMu = "free"
  /\ o \in StartRoundResults
  /\ questionBuffer' = o.buf
  /\ srcIndex' = o.idx
  /\ errBudget' = o.errs
  /\ nCalls' = nCalls + 1
  /\ IF o.q = None
     THEN UNCHANGED <<CurrentQuestion, served, refillPending, hintCalls,
                      hintGrants>>
     ELSE /\ CurrentQuestion' = o.q
          /\ served' = served \cup {o.q}
          /\ refillPending' = refillPending + 1
          /\ hintCalls' = 0
          /\ hintGrants' = 0
  /\ UNCHANGED <<bufferMu, mu, srPc, hintCount, hintMask, nextVotes, fault,
                 last, sinceClear, typeVars, NextVoteThreshold, scoreVars>>

\* the goroutine StartRound launched, from its Lock to its Unlock: with
\* StartRound one step, nothing else takes bufferMu in between
RefillWhole ==
  /\ ~fault
  /\ refillPending > 0
  /\ bufferMu = "free"
  /\ refillPending' = refillPending - 1
  /\ \E st \in FillResults([buf |-> questionBuffer, idx |-> srcIndex,
                            errs |-> errBudget,
                            more |-> FillWanted(questionBuffer)]) :
       /\ questionBuffer' = st.buf
       /\ srcIndex' = st.idx
       /\ errBudget' = st.errs
  /\ UNCHANGED <<bufferMu, mu, srPc, roundVars, IsPlaying, fault, last,
                 histVars, typeVars, gameVars, botVars, scoreVars>>

\* timers[q] is "field" while the timeout armed for the round of q is
\* pending and Game.QuestionTimer points to it, "orphan" while it is
\* pending and the field points elsewhere, the position of its callback
\* while that runs, and "off" otherwise

\* the timers after the field was assigned the new timer of round q
TimersArmed(t, q) ==
  [p \in QuestionIds |->
     IF p = q THEN "field" ELSE IF t[p] = "field" THEN "orphan" ELSE t[p]]

\* the timers after g.QuestionTimer.Stop()
TimersStopped(t) ==
  [p \in QuestionIds |-> IF t[p] = "field" THEN "off" ELSE t[p]]

\* triviaGame.QuestionTimer = time.AfterFunc(30s, ...) in the askQuestion
\* that got question q: the field now points to a new pending timer; a
\* pending timer it pointed to before stays pending
ArmQuestionTimer(q) ==
  /\ QuestionTimer' = "armed"
  /\ callbacks' = IF QuestionTimer = "armed"
                  THEN [callbacks EXCEPT !.orphan = @ + 1]
                  ELSE callbacks
  /\ timers' = TimersArmed(timers, q)

(* ------------------------------- !start ------------------------------- *)
\* if triviaGame.GetPlaying() { ...; return }
HandleStart ==
  /\ ~fault
  /\ hpc.pc = "idle"
  /\ Len(loops) < MaxStarts
  /\ ~IsPlaying
  /\ hpc' = AtHandler("start")
  /\ UNCHANGED <<bufferVars, mu, srPc, roundVars, IsPlaying, fault, last,
                 histVars, typeVars, gameVars, gameStopChan, loops,
                 callbacks, timers, scoreVars>>

\* triviaGame.SetPlaying(true); go gameLoop(...): the new goroutine creates
\* its timer, stops it and enters the select
HandleStartLaunch ==
  /\ ~fault
  /\ hpc.pc = "start"
  /\ IsPlaying' = PlayingAfterSet(IsPlaying, TRUE)
  /\ playArg' = TRUE
  /\ loops' = Append(loops, NewLoop)
  /\ hpc' = AtHandler("ask")
  /\ UNCHANGED <<bufferVars, mu, srPc, roundVars, fault, last, served,
                 nCalls, hintCalls, hintGrants, sinceClear, typeVars,
                 gameVars, gameStopChan, callbacks, timers, scoreVars>>

\* askQuestion called by the handler: StartRound
HandleAsk ==
  /\ ~fault
  /\ hpc.pc = "ask"
  /\ \E o \in StartRoundResults :
       /\ CallStartRound(o)
       /\ hpc' = [pc |-> IF o.q = None THEN "ask.none" ELSE "ask.arm",
                  q |-> o.q]
  /\ UNCHANGED <<IsPlaying, playArg, QuestionTimer, gameStopChan, loops,
                 callbacks, timers, scoreVars>>

\* q == nil: triviaGame.SetPlaying(false); return
HandleAskNone ==
  /\ ~fault
  /\ hpc.pc = "ask.none"
  /\ IsPlaying' = PlayingAfterSet(IsPlaying, FALSE)
  /\ playArg' = FALSE
  /\ hpc' = AtHandler("idle")
  /\ UNCHANGED <<bufferVars, mu, srPc, roundVars, fault, last, served,
                 nCalls, hintCalls, hintGrants, sinceClear, typeVars,
                 gameVars, gameStopChan, loops, callbacks, timers,
                 scoreVars>>

\* q != nil: announce the question and arm its timeout
HandleAskArm ==
  /\ ~fault
  /\ hpc.pc = "ask.arm"
  /\ ArmQuestionTimer(hpc.q)
  /\ hpc' = AtHandler("idle")
  /\ UNCHANGED <<bufferVars, mu, srPc, roundVars, IsPlaying, fault, last,
                 histVars, typeVars, NextVoteThreshold, gameStopChan, loops,
                 scoreVars>>

(* -------------------------------- !stop ------------------------------- *)
\* if !triviaGame.GetPlaying() { ...; return }
HandleStop ==
  /\ ~fault
  /\ hpc.pc = "idle"
  /\ IsPlaying
  /\ hpc' = AtHandler("stop")
  /\ UNCHANGED <<bufferVars, mu, srPc, roundVars, IsPlaying, fault, last,
                 histVars, typeVars, gameVars, gameStopChan, loops,
                 callbacks, timers, scoreVars>>

\* triviaGame.SetPlaying(false)
HandleStopSet ==
  /\ ~fault
  /\ hpc.pc = "stop"
  /\ IsPlaying' = PlayingAfterSet(IsPlaying, FALSE)
  /\ playArg' = FALSE
  /\ hpc' = AtHandler("stop.close")
  /\ UNCHANGED <<bufferVars, mu, srPc, roundVars, fault, last, served,
                 nCalls, hintCalls, hintGrants, sinceClear, typeVars,
                 gameVars, gameStopChan, loops, callbacks, timers,
                 scoreVars>>

\* close(gameStopChan): closing a closed channel panics
HandleStopClose ==
  /\ ~fault
  /\ hpc.pc = "stop.close"
  /\ IF gameStopChan = "closed"
     THEN /\ fault' = TRUE
          /\ hpc' = AtHandler("panic")
          /\ UNCHANGED gameStopChan
     ELSE /\ gameStopChan' = "closed"
          /\ hpc' = AtHandler("idle")
          /\ UNCHANGED fault
  /\ UNCHANGED <<bufferVars, mu, srPc, roundVars, IsPlaying, last, histVars,
                 typeVars, gameVars, loops, callbacks, timers, scoreVars>>

(* ------------------------- !answer, handleAnswer ---------------------- *)
\* if triviaGame.GetCurrentQuestion() == nil { ...; return }; the user
\* submits the answer of the question that is active now
HandleAnswer ==
  /\ ~fault
  /\ hpc.pc = "idle"
  /\ CurrentQuestion # None
  /\ hpc' = [pc |-> "answer", q |-> CurrentQuestion]
  /\ UNCHANGED <<bufferVars, mu, srPc, roundVars, IsPlaying, fault, last,
                 histVars, typeVars, gameVars, gameStopChan, loops,
                 callbacks, timers, scoreVars>>

\* if triviaGame.CheckAnswer(answerAttempt)
HandleAnswerCheck ==
  /\ ~fault
  /\ hpc.pc = "answer"
  /\ hpc' = IF CheckAnswerResult(CurrentQuestion, Answer(hpc.q))
            THEN [pc |-> "answer.announce", q |-> CurrentQuestion]
            ELSE AtHandler("idle")
  /\ UNCHANGED <<bufferVars, mu, srPc, roundVars, IsPlaying, fault, last,
                 histVars, typeVars, gameVars, gameStopChan, loops,
                 callbacks, timers, scoreVars>>

\* the chat users whose messages the handler answers in SpecBot
Senders == {"u1"}

\* triviaGame.GetCurrentQuestion().Answer: a nil pointer when the question
\* was cleared in between; then Scoreboard.AddScore(user, 1)
HandleAnswerAnnounce ==
  /\ ~fault
  /\ hpc.pc = "answer.announce"
  /\ IF CurrentQuestion = None
     THEN /\ fault' = TRUE
          /\ hpc' = AtHandler("panic")
          /\ UNCHANGED scoreVars
     ELSE /\ fault' = fault
          /\ hpc' = [hpc EXCEPT !.pc = "answer.clear"]
          /\ \E user \in Senders : AddScoreCall(user, 1)
  /\ UNCHANGED <<bufferVars, mu, srPc, roundVars, IsPlaying, last, histVars,
                 typeVars, gameVars, gameStopChan, loops, callbacks, timers>>

\* triviaGame.ClearCurrentQuestion()
HandleAnswerClear ==
  /\ ~fault
  /\ hpc.pc = "answer.clear"
  /\ ClearRound
  /\ timers' = TimersStopped(timers)
  /\ hpc' = [hpc EXCEPT !.pc = "answer.playing"]
  /\ UNCHANGED <<bufferVars, mu, srPc, IsPlaying, fault, last, served,
                 nCalls, playArg, typeVars, NextVoteThreshold, gameStopChan,
                 loops, callbacks, scoreVars>>

\* if triviaGame.GetPlaying(): go on to the send on AnswerGiven
HandleAnswerPlaying ==
  /\ ~fault
  /\ hpc.pc = "answer.playing"
  /\ hpc' = IF IsPlaying THEN [hpc EXCEPT !.pc = "answer.send"]
            ELSE AtHandler("idle")
  /\ UNCHANGED <<bufferVars, mu, srPc, roundVars, IsPlaying, fault, last,
                 histVars, typeVars, gameVars, gameStopChan, loops,
                 callbacks, timers, scoreVars>>

\* a gameLoop takes a value from AnswerGiven
Receive(i, answered) ==
  /\ loops[i].pc = "select"
  /\ loops' = [loops EXCEPT ![i].pc = "event", ![i].answered = answered]

\* triviaGame.AnswerGiven <- true: the channel has no buffer, the send
\* completes when a gameLoop receives
HandleAnswerSend ==
  /\ ~fault
  /\ hpc.pc = "answer.send"
  /\ \E i \in LoopIds : Receive(i, TRUE)
  /\ hpc' = AtHandler("idle")
  /\ UNCHANGED <<bufferVars, mu, srPc, roundVars, IsPlaying, fault, last,
                 histVars, typeVars, gameVars, gameStopChan, callbacks,
                 timers, scoreVars>>

(* ------------------------------ !question ----------------------------- *)
\* if triviaGame.GetPlaying() { ...; return }; askQuestion(...)
HandleQuestion ==
  /\ ~fault
  /\ hpc.pc = "idle"
  /\ ~IsPlaying
  /\ nCalls < NQ + ExtraCalls
  /\ hpc' = AtHandler("ask")
  /\ UNCHANGED <<bufferVars, mu, srPc, roundVars, IsPlaying, fault, last,
                 histVars, typeVars, gameVars, gameStopChan, loops,
                 callbacks, timers, scoreVars>>

(* -------------------------------- !skip ------------------------------- *)
\* if triviaGame.GetCurrentQuestion() == nil { ...; return }
HandleSkip ==
  /\ ~fault
  /\ hpc.pc = "idle"
  /\ CurrentQuestion # None
  /\ hpc' = AtHandler("skip")
  /\ UNCHANGED <<bufferVars, mu, srPc, roundVars, IsPlaying, fault, last,
                 histVars, typeVars, gameVars, gameStopChan, loops,
                 callbacks, timers, scoreVars>>

\* currentVotes, threshold, skipped := triviaGame.AddNextVote(user); when
\* skipped is false the handler reports the tally and returns
HandleSkipVote ==
  /\ ~fault
  /\ hpc.pc = "skip"
  /\ \E user \in Users :
       IF NoQuestion(CurrentQuestion)
       THEN /\ hpc' = AtHandler("idle")
            /\ UNCHANGED <<nextVotes, sinceClear>>
       ELSE IF AlreadyVoted(nextVotes, user)
       THEN /\ hpc' = AtHandler("idle")
            /\ sinceClear' = IF sinceClear = "cleared" THEN "first"
                                                        ELSE "other"
            /\ UNCHANGED nextVotes
       ELSE LET currentVotes == Cardinality(nextVotes \cup {user})
                skipped == QuorumReached(currentVotes, NextVoteThreshold)
            IN /\ nextVotes' = nextVotes \cup {user}
               /\ sinceClear' = IF sinceClear = "cleared" THEN "first"
                                                           ELSE "other"
               /\ hpc' = IF skipped
                         THEN [pc |-> "skip.announce", q |-> CurrentQuestion]
                         ELSE AtHandler("idle")
  /\ UNCHANGED <<bufferVars, mu, srPc, CurrentQuestion, hintCount, hintMask,
                 IsPlaying, fault, last, served, nCalls, hintCalls,
                 hintGrants, playArg, typeVars, gameVars, gameStopChan, loops,
                 callbacks, timers, scoreVars>>

\* triviaGame.GetCurrentQuestion().Answer: a nil pointer when the question
\* was cleared in between
HandleSkipAnnounce ==
  /\ ~fault
  /\ hpc.pc = "skip.announce"
  /\ IF CurrentQuestion = None
     THEN /\ fault' = TRUE
          /\ hpc' = AtHandler("panic")
     ELSE /\ fault' = fault
          /\ hpc' = [hpc EXCEPT !.pc = "skip.clear"]
  /\ UNCHANGED <<bufferVars, mu, srPc, roundVars, IsPlaying, last, histVars,
                 typeVars, gameVars, gameStopChan, loops, callbacks, timers,
                 scoreVars>>

\* triviaGame.ClearCurrentQuestion()
HandleSkipClear ==
  /\ ~fault
  /\ hpc.pc = "skip.clear"
  /\ ClearRound
  /\ timers' = TimersStopped(timers)
  /\ hpc' = [hpc EXCEPT !.pc = "skip.playing"]
  /\ UNCHANGED <<bufferVars, mu, srPc, IsPlaying, fault, last, served,
                 nCalls, playArg, typeVars, NextVoteThreshold, gameStopChan,
                 loops, callbacks, scoreVars>>

\* if triviaGame.GetPlaying(): go on to the send on AnswerGiven
HandleSkipPlaying ==
  /\ ~fault
  /\ hpc.pc = "skip.playing"
  /\ hpc' = IF IsPlaying THEN [hpc EXCEPT !.pc = "skip.send"]
            ELSE AtHandler("idle")
  /\ UNCHANGED <<bufferVars, mu, srPc, roundVars, IsPlaying, fault, last,
                 histVars, typeVars, gameVars, gameStopChan, loops,
                 callbacks, timers, scoreVars>>

\* triviaGame.AnswerGiven <- false
HandleSkipSend ==
  /\ ~fault
  /\ hpc.pc = "skip.send"
  /\ \E i \in LoopIds : Receive(i, FALSE)
  /\ hpc' = AtHandler("idle")
  /\ UNCHANGED <<bufferVars, mu, srPc, roundVars, IsPlaying, fault, last,
                 histVars, typeVars, gameVars, gameStopChan, callbacks,
                 timers, scoreVars>>

(* -------------------- the per-question timeout ------------------------ *)
\* the timer's callback runs in a goroutine of its own
botFrame == <<gameStopChan, hpc, loops>>

\* the timer the field points to expires
QuestionTimerFires ==
  /\ ~fault
  /\ QuestionTimer = "armed"
  /\ QuestionTimer' = "fired"
  /\ callbacks' = [callbacks EXCEPT !.check = @ + 1]
  /\ \E q \in QuestionIds :
       /\ timers[q] = "field"
       /\ timers' = [timers EXCEPT ![q] = "check"]
  /\ UNCHANGED <<bufferVars, mu, srPc, roundVars, IsPlaying, fault, last,
                 histVars, typeVars, NextVoteThreshold, botFrame, scoreVars>>

\* a pending timer of an earlier askQuestion expires
OrphanTimerFires ==
  /\ ~fault
  /\ callbacks.orphan > 0
  /\ callbacks' = [callbacks EXCEPT !.orphan = @ - 1, !.check = @ + 1]
  /\ \E q \in QuestionIds :
       /\ timers[q] = "orphan"
       /\ timers' = [timers EXCEPT ![q] = "check"]
  /\ UNCHANGED <<bufferVars, mu, srPc, roundVars, IsPlaying, fault, last,
                 histVars, typeVars, gameVars, botFrame, scoreVars>>

\* if triviaGame.GetCurrentQuestion() != nil
TimeoutCheck ==
  /\ ~fault
  /\ callbacks.check > 0
  /\ callbacks' = IF CurrentQuestion # None
                  THEN [callbacks EXCEPT !.check = @ - 1, !.announce = @ + 1]
                  ELSE [callbacks EXCEPT !.check = @ - 1]
  /\ \E q \in QuestionIds :
       /\ timers[q] = "check"
       /\ timers' = [timers EXCEPT
                       ![q] = IF CurrentQuestion # None THEN "announce"
                              ELSE "off"]
  /\ UNCHANGED <<bufferVars, mu, srPc, roundVars, IsPlaying, fault, last,
                 histVars, typeVars, gameVars, botFrame, scoreVars>>

\* triviaGame.GetCurrentQuestion().Answer: a nil pointer when the question
\* was cleared in between
TimeoutAnnounce ==
  /\ ~fault
  /\ callbacks.announce > 0
  /\ IF CurrentQuestion = None
     THEN fault' = TRUE /\ UNCHANGED <<callbacks, timers>>
     ELSE /\ fault' = fault
          /\ callbacks' = [callbacks EXCEPT !.announce = @ - 1,
                                            !.clear = @ + 1]
          /\ \E q \in QuestionIds :
               /\ timers[q] = "announce"
               /\ timers' = [timers EXCEPT ![q] = "clear"]
  /\ UNCHANGED <<bufferVars, mu, srPc, roundVars, IsPlaying, last, histVars,
                 typeVars, gameVars, botFrame, scoreVars>>

\* triviaGame.ClearCurrentQuestion()
TimeoutClear ==
  /\ ~fault
  /\ callbacks.clear > 0
  /\ ClearRound
  /\ callbacks' = [callbacks EXCEPT !.clear = @ - 1, !.playing = @ + 1]
  /\ \E q \in QuestionIds :
       /\ timers[q] = "clear"
       /\ timers' = [TimersStopped(timers) EXCEPT ![q] = "playing"]
  /\ UNCHANGED <<bufferVars, mu, srPc, IsPlaying, fault, last, served, nCalls,
                 playArg, typeVars, NextVoteThreshold, botFrame, scoreVars>>

\* if triviaGame.GetPlaying(): go on to the send on AnswerGiven
TimeoutPlaying ==
  /\ ~fault
  /\ callbacks.playing > 0
  /\ callbacks' = IF IsPlaying
                  THEN [callbacks EXCEPT !.playing = @ - 1, !.send = @ + 1]
                  ELSE [callbacks EXCEPT !.playing = @ - 1]
  /\ \E q \in QuestionIds :
       /\ timers[q] = "playing"
       /\ timers' = [timers EXCEPT
                       ![q] = IF IsPlaying THEN "send" ELSE "off"]
  /\ UNCHANGED <<bufferVars, mu, srPc, roundVars, IsPlaying, fault, last,
                 histVars, typeVars, gameVars, botFrame, scoreVars>>

\* triviaGame.AnswerGiven <- false
TimeoutSend ==
  /\ ~fault
  /\ callbacks.send > 0
  /\ \E i \in LoopIds : Receive(i, FALSE)
  /\ callbacks' = [callbacks EXCEPT !.send = @ - 1]
  /\ \E q \in QuestionIds :
       /\ timers[q] = "send"
       /\ timers' = [timers EXCEPT ![q] = "off"]
  /\ UNCHANGED <<bufferVars, mu, srPc, roundVars, IsPlaying, fault, last,
                 histVars, typeVars, gameVars, gameStopChan, hpc, scoreVars>>

(* ------------------------------ gameLoop ------------------------------ *)
loopFrame == <<gameStopChan, hpc, callbacks, timers>>

\* nextQuestionTimer expires: a value is put in its channel
NextQuestionTimerFires(i) ==
  /\ ~fault
  /\ loops[i].timer # 0
  /\ loops' = [loops EXCEPT ![i].timer = 0, ![i].tick = TRUE]
  /\ UNCHANGED <<bufferVars, mu, srPc, roundVars, IsPlaying, fault, last,
                 histVars, typeVars, gameVars, loopFrame, scoreVars>>

\* case <-nextQuestionTimer.C
LoopTimer(i) ==
  /\ ~fault
  /\ loops[i].pc = "select"
  /\ loops[i].tick
  /\ loops' = [loops EXCEPT ![i].tick = FALSE, ![i].pc = "timer"]
  /\ UNCHANGED <<bufferVars, mu, srPc, roundVars, IsPlaying, fault, last,
                 histVars, typeVars, gameVars, loopFrame, scoreVars>>

\* if triviaGame.GetPlaying(): go on to askQuestion
LoopTimerPlaying(i) ==
  /\ ~fault
  /\ loops[i].pc = "timer"
  /\ loops' = [loops EXCEPT ![i].pc = IF IsPlaying THEN "ask" ELSE "select"]
  /\ UNCHANGED <<bufferVars, mu, srPc, roundVars, IsPlaying, fault, last,
                 histVars, typeVars, gameVars, loopFrame, scoreVars>>

\* askQuestion called by the loop: StartRound
LoopAsk(i) ==
  /\ ~fault
  /\ loops[i].pc = "ask"
  /\ \E o \in StartRoundResults :
       /\ CallStartRound(o)
       /\ loops' = [loops EXCEPT
                      ![i].pc = IF o.q = None THEN "ask.none" ELSE "ask.arm",
                      ![i].q = o.q]
  /\ UNCHANGED <<IsPlaying, playArg, QuestionTimer, loopFrame, scoreVars>>

\* a variant that leaves the timer as it is
KeepTimer(l, d) == {l}

\* nextQuestionTimer.Reset(d): whether a value already waiting in the
\* channel survives depends on the Go version the bot is built for
ResetTimer(l, d) ==
  {[l EXCEPT !.timer = d, !.tick = FALSE]} \cup
  (IF l.tick THEN {[l EXCEPT !.timer = d]} ELSE {})

\* q == nil in askQuestion: SetPlaying(false) and return; back in the
\* loop, nextQuestionTimer.Reset(45 * time.Second)
LoopAskNone(i) ==
  /\ ~fault
  /\ loops[i].pc = "ask.none"
  /\ IsPlaying' = PlayingAfterSet(IsPlaying, FALSE)
  /\ playArg' = FALSE
  /\ \E l \in ResetTimer([loops[i] EXCEPT !.pc = "select"],
                         NextQuestionInterval) :
       loops' = [loops EXCEPT ![i] = l]
  /\ UNCHANGED <<bufferVars, mu, srPc, roundVars, fault, last, served, nCalls,
                 hintCalls, hintGrants, sinceClear, typeVars, gameVars,
                 loopFrame, scoreVars>>

\* q != nil in askQuestion: announce the question and arm its timeout;
\* back in the loop, nextQuestionTimer.Reset(45 * time.Second)
LoopAskArm(i) ==
  /\ ~fault
  /\ loops[i].pc = "ask.arm"
  /\ ArmQuestionTimer(loops[i].q)
  /\ \E l \in ResetTimer([loops[i] EXCEPT !.pc = "select", !.q = None],
                         NextQuestionInterval) :
       loops' = [loops EXCEPT ![i] = l]
  /\ UNCHANGED <<bufferVars, mu, srPc, roundVars, IsPlaying, fault, last,
                 histVars, typeVars, NextVoteThreshold, gameStopChan, hpc,
                 scoreVars>>

\* a variant that waits longer after a round nobody answered
DelayByOutcome(answered) ==
  IF answered THEN NextQuestionDelay ELSE NextQuestionInterval

\* the delay armed after a round-ended value: both branches of
\* "if answered" reset the timer to nextQuestionDelay
DelayAfterRound(answered) == NextQuestionDelay

\* case answered := <-triviaGame.AnswerGiven, after the receive:
\* if triviaGame.GetPlaying() { nextQuestionTimer.Reset(...) }
LoopRoundEnded(i) ==
  /\ ~fault
  /\ loops[i].pc = "event"
  /\ IF IsPlaying
     THEN \E l \in ResetTimer([loops[i] EXCEPT !.pc = "select",
                                                !.answered = FALSE],
                              DelayAfterRound(loops[i].answered)) :
            loops' = [loops EXCEPT ![i] = l]
     ELSE loops' = [loops EXCEPT ![i].pc = "select", ![i].answered = FALSE]
  /\ UNCHANGED <<bufferVars, mu, srPc, roundVars, IsPlaying, fault, last,
                 histVars, typeVars, gameVars, loopFrame, scoreVars>>

\* what nextQuestionTimer is doing
TimerState(l) ==
  IF l.tick THEN "fired" ELSE IF l.timer # 0 THEN "armed" ELSE "disarmed"

\* a variant that stays in the loop
StayInLoop(l) == [l EXCEPT !.stoppedAt = TimerState(l)]

\* case <-stopChan: return; the deferred nextQuestionTimer.Stop() runs
ExitLoop(l) ==
  [l EXCEPT !.pc = "exited", !.timer = 0, !.tick = FALSE,
            !.stoppedAt = TimerState(l)]

LoopStop(i) ==
  /\ ~fault
  /\ loops[i].pc = "select"
  /\ gameStopChan = "closed"
  /\ loops' = [loops EXCEPT ![i] = ExitLoop(loops[i])]
  /\ UNCHANGED <<bufferVars, mu, srPc, roundVars, IsPlaying, fault, last,
                 histVars, typeVars, gameVars, loopFrame, scoreVars>>

gameLoop(i) ==
  \/ LoopTimer(i)
  \/ LoopTimerPlaying(i)
  \/ LoopAsk(i)
  \/ LoopAskNone(i)
  \/ LoopAskArm(i)
  \/ LoopRoundEnded(i)
  \/ LoopStop(i)

(* ------------------------------- SpecBot ------------------------------ *)
\* the bot: the message handler with !start, !stop and !answer, the
\* gameLoop goroutines, the question timeouts and the refill goroutine
NextBot ==
  \/ HandleStart
  \/ HandleStartLaunch
  \/ HandleAsk
  \/ HandleAskNone
  \/ HandleAskArm
  \/ HandleStop
  \/ HandleStopSet
  \/ HandleStopClose
  \/ HandleAnswer
  \/ HandleAnswerCheck
  \/ HandleAnswerAnnounce
  \/ HandleAnswerClear
  \/ HandleAnswerPlaying
  \/ HandleAnswerSend
  \/ QuestionTimerFires
  \/ OrphanTimerFires
  \/ TimeoutCheck
  \/ TimeoutAnnounce
  \/ TimeoutClear
  \/ TimeoutPlaying
  \/ TimeoutSend
  \/ \E i \in LoopIds : NextQuestionTimerFires(i)
  \/ \E i \in LoopIds : LoopTimer(i)
  \/ \E i \in LoopIds : LoopTimerPlaying(i)
  \/ \E i \in LoopIds : LoopAsk(i)
  \/ \E i \in LoopIds : LoopAskNone(i)
  \/ \E i \in LoopIds : LoopAskArm(i)
  \/ \E i \in LoopIds : LoopRoundEnded(i)
  \/ \E i \in LoopIds : LoopStop(i)
  \/ RefillWhole

\* the bot after the first NQ - BotQuestions questions were asked with
\* !question, one at a time, each taken from the head of the buffer and
\* each ended by its timeout
InitBot ==
  LET asked == NQ - BotQuestions
      kept == Min(BotQuestions, BufferTarget)
  IN /\ srcIndex = asked + kept
     /\ errBudget = 0
     /\ questionBuffer = [i \in 1..kept |-> asked + i]
     /\ bufferMu = "free"
     /\ mu = "free"
     /\ srPc = "idle"
     /\ refillPending = 0
     /\ CurrentQuestion = None
     /\ hintCount = 0
     /\ hintMask = <<>>
     /\ nextVotes = {}
     /\ IsPlaying = FALSE
     /\ NextVoteThreshold = DefaultNextVoteThreshold
     /\ QuestionTimer = IF asked = 0 THEN "nil" ELSE "fired"
     /\ fault = FALSE
     /\ BotStart
     /\ NoScoreFile
     /\ Scores = NewScoreboardScores(scoreboardFile)
     /\ last = Ret("NewGame")
     /\ served = 1..asked
     /\ nCalls = asked
     /\ hintCalls = 0
     /\ hintGrants = 0
     /\ sinceClear = IF asked = 0 THEN "other" ELSE "cleared"
     /\ playArg = FALSE
     /\ attempt = <<>>
     /\ variant = FALSE

SpecBot == InitBot /\ [][NextBot]_vars

(* ------------------------------ SpecChat ------------------------------ *)
\* the first !start of a session
HandleFirstStart == Len(loops) = 0 /\ HandleStart

\* the bot in a session with one !start: the message handler with !start,
\* !stop, !question, !answer and !skip, the gameLoop goroutine, the
\* question timeouts and the refill goroutine
NextChat ==
  \/ HandleFirstStart
  \/ HandleStartLaunch
  \/ HandleAsk
  \/ HandleAskNone
  \/ HandleAskArm
  \/ HandleStop
  \/ HandleStopSet
  \/ HandleStopClose
  \/ HandleQuestion
  \/ HandleAnswer
  \/ HandleAnswerCheck
  \/ HandleAnswerAnnounce
  \/ HandleAnswerClear
  \/ HandleAnswerPlaying
  \/ HandleAnswerSend
  \/ HandleSkip
  \/ HandleSkipVote
  \/ HandleSkipAnnounce
  \/ HandleSkipClear
  \/ HandleSkipPlaying
  \/ HandleSkipSend
  \/ QuestionTimerFires
  \/ OrphanTimerFires
  \/ TimeoutCheck
  \/ TimeoutAnnounce
  \/ TimeoutClear
  \/ TimeoutPlaying
  \/ TimeoutSend
  \/ \E i \in LoopIds : gameLoop(i)
  \/ \E i \in LoopIds : NextQuestionTimerFires(i)
  \/ RefillWhole

SpecChat == InitBot /\ [][NextChat]_vars

(* ============================== claims ================================ *)
\* C1: with a source that never fails (SpecBuffer), under every
\* interleaving of StartRound calls with the refill goroutine, the first NQ
\* StartRound calls each return a question of the source, no question is
\* returned twice, and every later call returns nil.
C1_EveryQuestionServedOnce ==
  /\ served \subseteq QuestionIds
  /\ Cardinality(served) = Min(nCalls, NQ)
  /\ last.op = "StartRound" => (last.q # None <=> nCalls <= NQ)
  /\ last.op = "StartRound" /\ last.q # None => last.q \in served

C1_Witness ==
  /\ last.op = "StartRound"
  /\ last.q = None
  /\ nCalls = NQ + 1
  /\ served = QuestionIds

\* C2: the question StartRound returned is the one GetCurrentQuestion
\* returns, and the active question is never an element of the buffer.
C2_ActiveNotInBuffer ==
  /\ CurrentQuestion # None =>
       \A i \in 1..Len(questionBuffer) : questionBuffer[i] # CurrentQuestion
  /\ last.op = "StartRound" /\ last.q # None => CurrentQuestion = last.q
  /\ last.op = "GetCurrentQuestion" => last.q = CurrentQuestion

C2_Witness ==
  /\ last.op = "GetCurrentQuestion"
  /\ last.q # None
  /\ Len(questionBuffer) = BufferTarget
  /\ nCalls = 1

\* C3: right after every successful StartRound, also one called while a
\* round is active, the hint counter is 0, the hint mask is empty and the
\* skip-vote set is empty.
C3_FreshAfterStartRound ==
  last.op = "StartRound" /\ last.q # None =>
    hintCount = 0 /\ hintMask = <<>> /\ nextVotes = {}

\* C4: with no active question CheckAnswer returns false, GetHint refuses
\* with the "no question" message, AddNextVote returns (0, 0, false), and
\* none of them changes the round state, PlayMode or the buffer.
C4_Step ==
  CurrentQuestion = None
  /\ (\/ \E s \in Submissions : CheckAnswer(s)
      \/ GetHint
      \/ \E u \in Users : AddNextVote(u))
  => /\ last'.ok = FALSE
     /\ last'.n = 0
     /\ last'.thr = 0
     /\ last'.op = "GetHint" => last'.msg = "No question is currently active."
     /\ UNCHANGED <<roundVars, IsPlaying, bufferVars>>

C4_NoQuestionDenied == [][C4_Step]_vars

C4_Witness ==
  /\ last.op = "AddNextVote"
  /\ CurrentQuestion = None
  /\ sinceClear = "cleared"
  /\ IsPlaying

\* the normal form the specification describes: keep the letters and
\* digits, in lower case
FoldCase(c) == IF c = "A" THEN "a" ELSE IF c = "B" THEN "b" ELSE c

RECURSIVE Canonical(_)
Canonical(s) ==
  IF s = <<>> THEN <<>>
  ELSE (IF Head(s) \in {"a", "b", "A", "B", "4"}
        THEN <<FoldCase(Head(s))>> ELSE <<>>) \o Canonical(Tail(s))

\* C5: normalizeAnswer(normalizeAnswer(s)) = normalizeAnswer(s).
C5_NormalizeIdempotent ==
  last.op = "normalizeAnswer twice" => last.text = last.arg

C5_Witness ==
  /\ last.op = "normalizeAnswer twice"
  /\ last.text # attempt
  /\ last.text # <<>>

\* C6: while a question is active CheckAnswer accepts every submission made
\* from its answer by changing case, whitespace and punctuation.
C6_VariantAccepted ==
  last.op = "CheckAnswer" /\ CurrentQuestion # None /\ variant => last.ok

C6_Witness ==
  /\ last.op = "CheckAnswer"
  /\ CurrentQuestion # None
  /\ variant
  /\ attempt # Answer(CurrentQuestion)
  /\ Len(attempt) = MaxLen
  /\ last.ok

\* C7: while a question is active CheckAnswer returns true exactly when
\* submission and answer have the same normal form, and it changes nothing
\* of the round state or PlayMode.
C7_Step ==
  CurrentQuestion # None /\ CheckAnswer(attempt) =>
    /\ last'.ok = (Canonical(attempt) = Canonical(Answer(CurrentQuestion)))
    /\ UNCHANGED <<roundVars, IsPlaying>>

C8_AtMostMaxHints ==
  /\ hintGrants <= MaxHints
  /\ hintCount \in 0..MaxHints

C8_Witness ==
  /\ hintGrants = MaxHints
  /\ last.op = "GetHint"
  /\ ~last.ok
  /\ \E i \in 1..Len(hintMask) : hintMask[i] = "_"

C10_ClearResets ==
  /\ last.op = "ClearCurrentQuestion" =>
       /\ CurrentQuestion = None
       /\ hintCount = 0
       /\ hintMask = <<>>
       /\ nextVotes = {}
  /\ last.op = "AddNextVote" /\ sinceClear = "first" => last.n = 1

C10_Witness ==
  /\ last.op = "AddNextVote"
  /\ sinceClear = "first"
  /\ last.n = 1
  /\ CurrentQuestion # None
  /\ hintCount > 0

\* C11: in every reachable state with no active question the hint counter
\* is 0, the hint mask is empty and the skip-vote set is empty.
C11_IdleHasNoRoundState ==
  CurrentQuestion = None =>
    hintCount = 0 /\ hintMask = <<>> /\ nextVotes = {}

C11_Witness ==
  /\ CurrentQuestion = None
  /\ last.op = "GetHint"
  /\ sinceClear = "cleared"
  /\ served # {}

\* C12: a vote by a user who is already in the vote set leaves the set
\* unchanged, returns the size of the set with skipNow false, and returns
\* the tally and threshold of the AddNextVote call just before it.
C12_Step ==
  \A u \in Users :
    CurrentQuestion # None /\ u \in nextVotes /\ AddNextVote(u) =>
      /\ nextVotes' = nextVotes
      /\ last'.n = Cardinality(nextVotes)
      /\ last'.ok = FALSE
      /\ last.op = "AddNextVote" => last'.n = last.n /\ last'.thr = last.thr

C13_Step ==
  \A u \in Users :
    last.op = "StartRound" /\ last.q # None /\ AddNextVote(u) =>
      /\ last'.n = 1
      /\ last'.thr = NextVoteThreshold
      /\ last'.ok = (1 >= NextVoteThreshold)

C13_TallyCountsThisQuestion == [][C13_Step]_vars

\* C14: AddNextVote leaves the active question, the hint counter and the
\* hint mask unchanged, also when it returns skipNow, and an active
\* question goes away only in a ClearCurrentQuestion step.
C14_Step ==
  /\ (\E u \in Users : AddNextVote(u)) =>
       UNCHANGED <<CurrentQuestion, hintCount, hintMask>>
  /\ CurrentQuestion # None /\ CurrentQuestion' = None =>
       ClearCurrentQuestion

C14_VoteNeverClears == [][C14_Step]_vars

C14_Witness ==
  /\ last.op = "AddNextVote"
  /\ last.ok
  /\ CurrentQuestion # None
  /\ hintCount > 0

\* C15: GetPlaying returns the argument of the most recent SetPlaying call
\* (false before the first), and IsPlaying changes in SetPlaying steps
\* only: StartRound, CheckAnswer, GetHint, AddNextVote and
\* ClearCurrentQuestion leave it unchanged.
C15_Step ==
  /\ GetPlaying => last'.ok = playArg
  /\ IsPlaying' # IsPlaying => SetPlaying(IsPlaying')

C15_PlayModePersists == [][C15_Step]_vars

C15_Witness ==
  /\ last.op = "GetPlaying"
  /\ last.ok
  /\ CurrentQuestion = None
  /\ sinceClear = "cleared"
  /\ served # {}

\* C16: with PlayMode on, a gameLoop that has accepted a round-ended value
\* arms its timer for 5, whatever the value; when the timer has fired and
\* PlayMode is still on it calls StartRound and then arms the timer for 45.
C16_Step ==
  \A i \in LoopIds :
    /\ loops[i].pc = "event" /\ loops'[i].pc = "select" /\ IsPlaying =>
         loops'[i].timer = 5
    /\ loops[i].pc = "timer" /\ loops'[i].pc # "timer" /\ IsPlaying =>
         loops'[i].pc = "ask"
    /\ loops[i].pc = "ask" /\ loops'[i].pc # "ask" =>
         /\ nCalls' = nCalls + 1
         /\ loops'[i].pc = "ask.arm" => CurrentQuestion' \notin served
    /\ loops[i].pc \in {"ask.none", "ask.arm"} /\ loops'[i].pc = "select" =>
         loops'[i].timer = 45

C16_SchedulerPacing == [][C16_Step]_vars

C16_Witness ==
  \E i \in LoopIds :
    /\ loops[i].pc = "select"
    /\ loops[i].timer = 45
    /\ IsPlaying
    /\ CurrentQuestion # None
    /\ QuestionTimer = "armed"

\* C17: a gameLoop that has taken the stopChan case has exited with its
\* timer disarmed, and an exited loop never does anything again, whether
\* its timer was armed or had fired when it took the case.
C17_Step ==
  \A i \in LoopIds :
    /\ loops'[i].stoppedAt # "no" =>
         loops'[i].pc = "exited" /\ loops'[i].timer = 0
    /\ loops[i].pc = "exited" => loops'[i] = loops[i]

C17_StopEndsLoop == [][C17_Step]_vars

C17_Witness ==
  \E i, j \in LoopIds :
    /\ loops[i].stoppedAt = "armed"
    /\ loops[j].stoppedAt = "fired"
    /\ IsPlaying

\* C18: when StartRound returned nil to a gameLoop, the return of
\* askQuestion leaves PlayMode off, no active question and the loop's
\* timer disarmed.
C18_Step ==
  \A i \in LoopIds :
    loops[i].pc = "ask.none" /\ loops'[i].pc = "select" =>
      /\ IsPlaying' = FALSE
      /\ CurrentQuestion' = None
      /\ loops'[i].timer = 0

C18_ExhaustedSchedulerIdle == [][C18_Step]_vars

\* C19: every accepted !stop completes without a fault, and every accepted
\* !start launches its gameLoop on a stop channel that is still open.
C19_Step ==
  /\ hpc.pc = "stop.close" /\ hpc'.pc # "stop.close" => ~fault'
  /\ hpc.pc = "start" /\ hpc'.pc # "start" => gameStopChan' = "open"

C19_StartStopRepeatable == [][C19_Step]_vars

\* C20: when the !stop handler returns, no question is active and no
\* question timeout is pending.
C20_Step ==
  hpc.pc = "stop.close" /\ hpc'.pc = "idle" =>
    /\ CurrentQuestion' = None
    /\ QuestionTimer' # "armed"
    /\ callbacks'.orphan = 0

C20_StopEndsRound == [][C20_Step]_vars

\* C21: StartRound returns nil only when the source is exhausted and the
\* buffer is empty, and askQuestion switches continuous play off only then:
\* a transient error of the source causes neither.
C21_Step ==
  /\ last'.op = "StartRound" /\ last'.q = None /\ nCalls' = nCalls + 1
       => srcIndex' = NQ /\ Len(questionBuffer') = 0
  /\ IsPlaying /\ ~IsPlaying' => srcIndex' = NQ

C21_NoneOnlyWhenExhausted == [][C21_Step]_vars

\* C22: no operation of the engine panics, and every GetHint call returns
\* one of its defined results, also when the trimmed answer is empty and
\* when the mask was built for a question of another length.
C22_NoOperationFaults ==
  /\ ~fault
  /\ last.op = "GetHint" =>
       \/ last.ok
       \/ last.msg \in {"No question is currently active.",
                        "Maximum hints reached for this question.",
                        "No more characters to reveal for a hint."}

MaskBuiltForActive ==
  /\ CurrentQuestion # None
  /\ hintMask # <<>>
  /\ hintCount = hintGrants

\* C24: the mask built for the active question has one slot per character
\* of the trimmed answer; a space of the answer is shown as a space, every
\* other position shows "_" or the answer's character.
C24_MaskMirrorsAnswer ==
  MaskBuiltForActive =>
    LET answer == TrimSpace(Answer(CurrentQuestion))
    IN /\ Len(hintMask) = Len(answer)
       /\ \A i \in 1..Len(answer) :
            IF answer[i] = " " THEN hintMask[i] = " "
            ELSE hintMask[i] \in {"_", answer[i]}

C24_Witness ==
  /\ MaskBuiltForActive
  /\ CurrentQuestion = 1
  /\ hintCount = MaxHints
  /\ hintMask[2] = " "
  /\ \E i \in 1..Len(hintMask) : hintMask[i] = "_"

\* the positions of a mask that do not show the mask character
NonMasked(mask) == Cardinality({i \in 1..Len(mask) : mask[i] # "_"})

\* C25: a GetHint call that returns granted=true turns exactly one masked
\* position into the answer's character, leaves the other positions alone
\* and adds 1 to the counter; a call that returns granted=false changes
\* neither the mask nor the counter.  So in every step the counter grows by
\* the number of positions the step reveals: with an empty mask it is 0,
\* and the step that builds the mask leaves it at the number of positions
\* shown beyond the spaces of the new mask.
C25_Step ==
  /\ GetHint /\ ~fault' =>
       LET answer == IF CurrentQuestion = None THEN <<>>
                     ELSE TrimSpace(Answer(CurrentQuestion))
           before == IF Len(hintMask) = 0 THEN BuildMask(answer)
                                          ELSE hintMask
       IN IF last'.ok
          THEN /\ hintCount' = hintCount + 1
               /\ Len(hintMask') = Len(before)
               /\ \E i \in 1..Min(Len(before), Len(answer)) :
                    /\ before[i] = "_"
                    /\ hintMask'[i] = answer[i]
                    /\ \A j \in 1..Len(before) :
                         j # i => hintMask'[j] = before[j]
          ELSE UNCHANGED <<hintMask, hintCount>>
  /\ hintMask' = <<>> => hintCount' = 0
  /\ hintMask # <<>> /\ hintMask' # <<>> =>
       hintCount' - hintCount = NonMasked(hintMask') - NonMasked(hintMask)
  /\ hintMask = <<>> /\ hintMask' # <<>> =>
       /\ hintCount = 0
       /\ hintCount' = NonMasked(hintMask') -
                        NonMasked(BuildMask(TrimSpace(Answer(CurrentQuestion))))

C25_OneRevealPerGrant == [][C25_Step]_vars

C25_Witness ==
  /\ last.op = "GetHint"
  /\ ~last.ok
  /\ last.msg = "No more characters to reveal for a hint."
  /\ CurrentQuestion = 2
  /\ hintMask = Answer(2)
  /\ hintCount = Len(Answer(2))

\* C26: when a question is active, the counter is below MaxHints and a
\* position of the answer that is not a space is still masked, GetHint
\* returns granted=true whatever indices the random tries draw.
C26_Step ==
  LET answer == IF CurrentQuestion = None THEN <<>>
                ELSE TrimSpace(Answer(CurrentQuestion))
      before == IF Len(hintMask) = 0 THEN BuildMask(answer) ELSE hintMask
  IN /\ CurrentQuestion # None
     /\ hintCount < MaxHints
     /\ \E i \in 1..Min(Len(before), Len(answer)) :
          answer[i] # " " /\ before[i] = "_"
     /\ GetHint
     => ~fault' /\ last'.ok

C26_HintAlwaysGranted == [][C26_Step]_vars

\* C27: whenever the buffer is empty, the source is exhausted or a refill
\* is in flight: a StartRound call is under way (synchronous refill), or a
\* refill goroutine is waiting for the buffer lock or holds it.
C27_EmptyOnlyWhenExhausted ==
  Len(questionBuffer) = 0 =>
    \/ srcIndex = NQ
    \/ srPc # "idle"
    \/ refillPending > 0
    \/ bufferMu = "refill"

\* a fillQuestionBufferUnlocked loop is running: in StartRound, or in the
\* refill goroutine
Filling == srPc = "fill" \/ bufferMu = "refill"

\* C28: every iteration of a refill takes at most one question from the
\* source, the next one in source order, and appends it; the refill goes on
\* exactly when it appended a question and the buffer is still below
\* BufferTarget, so it stops on the target, on exhaustion and on a transient
\* error.  The iteration that meets the error leaves buffer and source
\* position as they are, raises nothing, and StartRound goes on to look at
\* the buffer; the buffer never exceeds BufferTarget.
C28_Step ==
  /\ StartRoundFill \/ RefillFill =>
       /\ \/ /\ questionBuffer' = Append(questionBuffer, srcIndex + 1)
             /\ srcIndex' = srcIndex + 1
             /\ errBudget' = errBudget
          \/ UNCHANGED <<questionBuffer, srcIndex>>
       /\ Filling' <=>
            srcIndex' = srcIndex + 1 /\ Len(questionBuffer') < BufferTarget
       /\ errBudget' < errBudget =>
            /\ UNCHANGED <<questionBuffer, srcIndex, last, fault>>
            /\ srPc = "fill" => srPc' = "take"
  /\ Len(questionBuffer') <= BufferTarget

C28_RefillStops == [][C28_Step]_vars

C28_Witness ==
  /\ errBudget = MaxErrors - 2
  /\ srcIndex = NQ
  /\ Len(questionBuffer) = BufferTarget
  /\ nCalls = 1
  /\ ~Filling

\* C29: StartRound holds the buffer lock only inside the round lock and
\* asks for the round lock holding nothing; the refill goroutine takes the
\* buffer lock and never the round lock; so whoever holds the buffer lock
\* can take its next step, and StartRound waiting for a free buffer lock
\* gets it: no state is a deadlock on the two locks.
C29_Step ==
  /\ bufferMu = "StartRound" => mu = "StartRound"
  /\ StartRoundLock => bufferMu # "StartRound" /\ srPc = "idle"
  /\ RefillLock \/ RefillFill => UNCHANGED <<mu, srPc>>
  /\ bufferMu = "refill" => ENABLED RefillFill
  /\ bufferMu = "StartRound" =>
       ENABLED (StartRoundFill \/ StartRoundNone \/ StartRoundTake)
  /\ srPc = "lockBuffer" /\ bufferMu = "free" => ENABLED StartRoundLockBuffer
  /\ refillPending > 0 /\ bufferMu = "free" => ENABLED RefillLock

C29_LockOrder == [][C29_Step]_vars

C29_Witness ==
  /\ mu = "StartRound"
  /\ srPc = "lockBuffer"
  /\ bufferMu = "refill"
  /\ refillPending > 0

\* C30: the source is read only by the task that holds the buffer lock.
\* StartRound is inside its refill loop only while it holds the lock, so it
\* is never there together with a refill goroutine; and every step that
\* moves the source (a question handed out, an error reported) is a step of
\* the lock's holder.
C30_Step ==
  /\ srPc \in {"fill", "take"} => bufferMu = "StartRound"
  /\ ~(srPc = "fill" /\ bufferMu = "refill")
  /\ srcIndex' # srcIndex \/ errBudget' # errBudget =>
       \/ bufferMu = "StartRound" /\ srPc = "fill" /\ StartRoundFill
       \/ bufferMu = "refill" /\ srPc \notin {"fill", "take"} /\ RefillFill

C30_SourceReadUnderLock == [][C30_Step]_vars

C30_Witness ==
  /\ srPc = "fill"
  /\ bufferMu = "StartRound"
  /\ refillPending > 0
  /\ srcIndex < NQ
  /\ Len(questionBuffer) > 0

\* C31: whenever a gameLoop accepts a round-ended value, the round the
\* value is about is not the active question: the handler that judged an
\* answer correct or counted the deciding skip vote for round q, and the
\* timeout callback armed for round q, complete their send on AnswerGiven
\* only in states where the active question is not q, because each of them
\* called ClearCurrentQuestion before it reached the send.
C31_Step ==
  /\ hpc.pc \in {"answer.send", "skip.send"} /\ hpc'.pc = "idle" =>
       /\ CurrentQuestion # hpc.q
       /\ \E i \in LoopIds : loops[i].pc = "select" /\ loops'[i].pc = "event"
  /\ \A q \in QuestionIds :
       timers[q] = "send" /\ timers'[q] = "off" =>
         /\ CurrentQuestion # q
         /\ \E i \in LoopIds :
              loops[i].pc = "select" /\ loops'[i].pc = "event"

C31_ClearedBeforeAccept == [][C31_Step]_vars

\* a gameLoop has accepted the value of a correct answer while a timeout
\* callback waits to deliver its own, and the next question is active
C31_Witness ==
  /\ \E i \in LoopIds : loops[i].pc = "event" /\ loops[i].answered
  /\ \E q \in QuestionIds : timers[q] = "send"
  /\ CurrentQuestion # None

\* C32: a task that waits to hand a round-ended value over on AnswerGiven
\* can still be served: as long as the handler or a timeout callback is
\* blocked in its send, some gameLoop has not exited.  (With every gameLoop
\* gone the send is never accepted unless a later !start happens to launch
\* a new one.)
C32_SenderHasLiveLoop ==
  \/ hpc.pc \in {"answer.send", "skip.send"}
  \/ \E q \in QuestionIds : timers[q] = "send"
  => \E i \in LoopIds : loops[i].pc # "exited"

\* C33: a timeout callback acts only on the round it was armed for: when
\* the callback armed for round q finds a question active, announces its
\* answer or clears it, the active question is q.
C33_Step ==
  \A q \in QuestionIds :
    /\ timers[q] = "check" /\ timers'[q] = "announce" => CurrentQuestion = q
    /\ timers[q] = "announce" /\ timers'[q] = "clear" => CurrentQuestion = q
    /\ timers[q] = "clear" /\ timers'[q] = "playing" =>
         CurrentQuestion \in {q, None}

C33_TimeoutActsOnOwnRound == [][C33_Step]_vars

\* C34: what a timeout callback does, step by step.  Its test with no
\* question active ends it and changes nothing else; with a question
\* active it goes on, announces the answer without a fault, clears the
\* round, and then hands the value false to a gameLoop exactly when it
\* reads PlayMode on.
C34_Step ==
  /\ TimeoutCheck =>
       /\ \A q \in QuestionIds :
            timers[q] = "check" /\ timers'[q] # "check" =>
              timers'[q] = IF CurrentQuestion = None THEN "off"
                           ELSE "announce"
       /\ UNCHANGED <<roundVars, IsPlaying, QuestionTimer, loops, fault,
                      scoreVars>>
  /\ TimeoutAnnounce => ~fault' /\ UNCHANGED roundVars
  /\ TimeoutClear => CurrentQuestion' = None
  /\ TimeoutPlaying =>
       \A q \in QuestionIds :
         timers[q] = "playing" /\ timers'[q] # "playing" =>
           timers'[q] = IF IsPlaying THEN "send" ELSE "off"
  /\ TimeoutSend =>
       \E i \in LoopIds :
         /\ loops[i].pc = "select"
         /\ loops'[i].pc = "event"
         /\ ~loops'[i].answered

C34_TimeoutCallback == [][C34_Step]_vars

\* C35: a path that has decided that a question is active reads one in
\* its next step: when the handler has judged an answer correct or counted
\* the deciding skip vote, and when a timeout callback has passed its test,
\* the question they are about to read for the announcement is not nil.
C35_NoStaleRead ==
  /\ hpc.pc \in {"answer.announce", "skip.announce"} =>
       CurrentQuestion # None
  /\ \A q \in QuestionIds : timers[q] = "announce" => CurrentQuestion # None

\* C36: StartRound is called only in the Idle state: in every step in
\* which a StartRound call completes, no question was active before it.
C36_Step == nCalls' = nCalls + 1 => CurrentQuestion = None

C36_StartRoundOnlyWhenIdle == [][C36_Step]_vars

\* C37: at most one gameLoop goroutine is alive at any time.
C37_OneLoopAlive ==
  Cardinality({i \in LoopIds : loops[i].pc # "exited"}) <= 1

\* C38: a round has one outcome: while question q is active it is never
\* the case that the handler has announced q as answered (and awarded the
\* point) or as skipped and is about to clear it, while the timeout
\* callback armed for q has announced "Time's up" for it and is about to
\* clear it too.
C38_OneOutcome ==
  \A q \in QuestionIds :
    ~ /\ CurrentQuestion = q
      /\ hpc.pc \in {"answer.clear", "skip.clear"}
      /\ hpc.q = q
      /\ timers[q] = "clear"

\* C39: while a question is active, CheckAnswer returns false for every
\* submission without a letter or digit (the empty one, whitespace only,
\* punctuation only), whatever the answer of the active question is.
C39_Step ==
  /\ CurrentQuestion # None
  /\ CheckAnswer(attempt)
  /\ \A i \in 1..Len(attempt) : attempt[i] \notin Upper \cup Lower \cup Digit
  => ~last'.ok

C39_BlankNeverAccepted == [][C39_Step]_vars

====
